---- MODULE Spec2Model ----
(***************************************************************************)
(* A model of the storefront bot: the relational store of database.py, the *)
(* access predicate and the admin handlers of admin_handlers.py, the shop  *)
(* handlers of bot_handlers.py and the handler registration of main.py.    *)
(*                                                                         *)
(* Tables are sets of rows (records); the operators of the store take a    *)
(* table and return the table after the statement.  Text is a TLA+ string, *)
(* except category text and callback payloads, which are sequences of      *)
(* tokens so that the payload encoding and decoding are computed.          *)
(* Python's None is the string NoneVal.                                    *)
(***************************************************************************)
EXTENDS Integers, Sequences, FiniteSets, TLC

\* ------------------------------------------------------------------ bounds
\* Largest chat user id; users are 1..MaxUser.
MaxUser == 2
\* Most products added after start-up seeding.
MaxProducts == 1
\* Most order rows inserted in one behaviour.
MaxOrders == 2
\* Most users registered in the broadcast specification.
MaxRecipients == 11
\* The updates of one chat handled at the same time.
MaxTasks == 2
\* The last reading of the clock.
MaxTime == 2

UserIds == 1..MaxUser
OWNER_IDS == {1}
NoneVal == "None"

\* ------------------------------------------------- conversation states
\* admin_handlers.py: WAITING_BIO, WAITING_BROADCAST; ConversationHandler.END.
WAITING_BIO == 1
WAITING_BROADCAST == 2
END == -1

VARIABLES
    users,          \* table users
    admins,         \* table admins
    products,       \* table products
    seq_products,   \* sqlite_sequence row of products (AUTOINCREMENT)
    orders,         \* table orders
    seq_orders,     \* sqlite_sequence row of orders (AUTOINCREMENT)
    settings,       \* table settings
    now,            \* datetime.now()
    conv_bio,       \* bio_conversation: conversation key -> state
    conv_bc,        \* broadcast_conversation: conversation key -> state
    bc,             \* the running handle_broadcast_message coroutine
    bio_tasks,      \* per actor, the handle_bio_message coroutines at their await
    buy_tasks,      \* the buy_now_callback coroutines at their first await
    ret,            \* the last call of a store method and what it returned
    out,            \* the last handled update and what its handler did
    hist            \* history: what the run has done so far (no program state)

store == <<users, admins, products, seq_products, orders, seq_orders, settings>>
convs == <<conv_bio, conv_bc>>
vars == <<users, admins, products, seq_products, orders, seq_orders, settings,
          now, conv_bio, conv_bc, bc, bio_tasks, buy_tasks, ret, out, hist>>

\* ------------------------------------------------------------ the store
\* database.py: each method is one statement on one table, committed at once.

\* INSERT OR REPLACE INTO users: the row of this user_id is replaced whole;
\* is_blocked is not in the column list and takes its DEFAULT 0.
add_user(tbl, user_id, username, first_name, last_name, t) ==
    {r \in tbl : r.user_id # user_id} \cup
    {[user_id |-> user_id, username |-> username, first_name |-> first_name,
      last_name |-> last_name, joined_date |-> t, is_blocked |-> 0,
      last_activity |-> t]}

update_user_activity(tbl, user_id, t) ==
    {IF r.user_id = user_id THEN [r EXCEPT !.last_activity = t] ELSE r : r \in tbl}

add_admin(tbl, user_id, username, added_by, t) ==
    {r \in tbl : r.user_id # user_id} \cup
    {[user_id |-> user_id, username |-> username, added_by |-> added_by,
      added_date |-> t]}

remove_admin_keeps_row(tbl, user_id) == tbl

remove_admin(tbl, user_id) == {r \in tbl : r.user_id # user_id}

is_admin(tbl, user_id) == \E r \in tbl : r.user_id = user_id

RECURSIVE OrderByUserId(_)
OrderByUserId(S) ==
    IF S = {} THEN <<>>
    ELSE LET m == CHOOSE r \in S : \A q \in S : r.user_id <= q.user_id
         IN  <<m>> \o OrderByUserId(S \ {m})

RECURSIVE OrderById(_)
OrderById(S) ==
    IF S = {} THEN <<>>
    ELSE LET m == CHOOSE r \in S : \A q \in S : r.id <= q.id
         IN  <<m>> \o OrderById(S \ {m})

\* SELECT ... FROM users WHERE is_blocked = 0, in rowid (= user_id) order.
\* get_all_users without its WHERE clause.
get_all_users_unfiltered(tbl) ==
    LET rows == OrderByUserId(tbl)
    IN  [i \in 1..Len(rows) |->
            [user_id |-> rows[i].user_id, username |-> rows[i].username,
             first_name |-> rows[i].first_name, last_name |-> rows[i].last_name,
             joined_date |-> rows[i].joined_date,
             last_activity |-> rows[i].last_activity]]

get_all_users(tbl) ==
    LET rows == OrderByUserId({r \in tbl : r.is_blocked = 0})
    IN  [i \in 1..Len(rows) |->
            [user_id |-> rows[i].user_id, username |-> rows[i].username,
             first_name |-> rows[i].first_name, last_name |-> rows[i].last_name,
             joined_date |-> rows[i].joined_date,
             last_activity |-> rows[i].last_activity]]

get_user_count(tbl) == Cardinality({r \in tbl : r.is_blocked = 0})

\* INSERT INTO products with a plain INTEGER PRIMARY KEY: the id after the
\* largest id in the table.
add_product_rowid(tbl, seq, category, name, features, price, description, t) ==
    LET top == IF tbl = {} THEN 0
               ELSE (CHOOSE r \in tbl : \A q \in tbl : q.id <= r.id).id
    IN  tbl \cup {[id |-> top + 1, category |-> category, name |-> name,
                   features |-> features, price |-> price,
                   description |-> description, created_date |-> t]}

\* INSERT INTO products: AUTOINCREMENT takes the id after the largest ever used.
add_product(tbl, seq, category, name, features, price, description, t) ==
    tbl \cup {[id |-> seq + 1, category |-> category, name |-> name,
               features |-> features, price |-> price,
               description |-> description, created_date |-> t]}

get_all_products(tbl) ==
    LET rows == OrderById(tbl)
    IN  [i \in 1..Len(rows) |->
            [id |-> rows[i].id, category |-> rows[i].category,
             name |-> rows[i].name, features |-> rows[i].features,
             price |-> rows[i].price, description |-> rows[i].description]]

get_products_by_category(tbl, category) ==
    LET rows == OrderById({r \in tbl : r.category = category})
    IN  [i \in 1..Len(rows) |->
            [id |-> rows[i].id, name |-> rows[i].name,
             features |-> rows[i].features, price |-> rows[i].price,
             description |-> rows[i].description]]

delete_product_others(tbl, product_id) == {r \in tbl : r.id = product_id}

delete_product(tbl, product_id) == {r \in tbl : r.id # product_id}

\* add_order written as an update of the user's latest order.
add_order_updates_latest(tbl, seq, user_id, product_name, amount, screenshot_file_id, t) ==
    {r \in tbl : r.user_id # user_id} \cup
        {[id |-> seq + 1, user_id |-> user_id, product_name |-> product_name,
          amount |-> amount, status |-> "pending", order_date |-> t,
          screenshot_file_id |-> screenshot_file_id]}

add_order(tbl, seq, user_id, product_name, amount, screenshot_file_id, t) ==
    tbl \cup {[id |-> seq + 1, user_id |-> user_id, product_name |-> product_name,
               amount |-> amount, status |-> "pending", order_date |-> t,
               screenshot_file_id |-> screenshot_file_id]}

get_setting(tbl, key, default) ==
    IF \E r \in tbl : r.key = key
    THEN (CHOOSE r \in tbl : r.key = key).value
    ELSE default

set_setting_insert_only(tbl, key, value) ==
    IF \E r \in tbl : r.key = key THEN tbl
    ELSE tbl \cup {[key |-> key, value |-> value]}

set_setting(tbl, key, value) ==
    {r \in tbl : r.key # key} \cup {[key |-> key, value |-> value]}

\* admin_handlers.py: the access predicate.
\* The access predicate asking only whether the admins table has a row.
is_owner_or_admin_any_row(tbl, user_id) == user_id \in OWNER_IDS \/ tbl # {}

\* The access predicate with the check left out.
is_owner_or_admin_open(tbl, user_id) == TRUE

\* admin_handlers.py, is_owner_or_admin
is_owner_or_admin(tbl, user_id) == user_id \in OWNER_IDS \/ is_admin(tbl, user_id)

\* ------------------------------------------------------------ input sets
\* The chat profile of a user: user 1 has no username set.
Handle == <<"", "bob", "carol", "dave", "erin">>
Username(u) == IF u <= Len(Handle) THEN Handle[u] ELSE ""
FirstName(u) == "First"
\* bot_handlers.py: user.username or f"user_{user.id}" (the id is the row's).
username_or_default(u) == IF Username(u) = "" THEN "user_<id>" ELSE Username(u)

Keys == {"bio_message", "qr_note"}
Values == {"", "v1", "v2"}
Defaults == {NoneVal, "dflt"}
Unset == "<unset>"

NoRet == [op |-> "none", arg |-> <<>>, val |-> NoneVal]
NoOut == [handler |-> "none", user |-> 0, data |-> <<>>, replies |-> <<>>,
          raised |-> "none", notice |-> "none"]
\* No handle_broadcast_message coroutine is running.
NoBroadcast ==
    [pc |-> "idle", user |-> 0, text |-> "", users |-> <<>>, i |-> 0,
     sent_count |-> 0, failed_count |-> 0, rejected |-> 0, attempted |-> <<>>]

\* No handle_bio_message coroutine is waiting for its reply.
NoTasks == [u \in UserIds |-> <<>>]

\* hist.admin[u]: whether the last of add_admin(u), remove_admin(u) was add_admin.
\* hist.setting[k]: the value of the last set_setting(k, _), if any.
\* hist.raced: whether the last resumed buy_now_callback found the catalog
\* without the product that was in it when the button was pressed.
HistInit ==
    [admin |-> [u \in UserIds |-> "not"],
     setting |-> [k \in Keys |-> Unset],
     raced |-> FALSE]

\* DatabaseManager.__init__ on a new file: init_database creates five empty tables.
InitStore ==
    /\ users = {}
    /\ admins = {}
    /\ products = {}
    /\ seq_products = 0
    /\ orders = {}
    /\ seq_orders = 0
    /\ settings = {}
    /\ now = 0
    /\ conv_bio = [u \in UserIds |-> END]
    /\ conv_bc = [u \in UserIds |-> END]
    /\ bc = NoBroadcast
    /\ ret = NoRet
    /\ out = NoOut
    /\ hist = HistInit
    /\ bio_tasks = NoTasks
    /\ buy_tasks = <<>>

\* A store method was called from outside any handler and returned val.
Returned(op, arg, val) ==
    /\ ret' = [op |-> op, arg |-> arg, val |-> val]
    /\ out' = NoOut
    /\ UNCHANGED <<now, conv_bio, conv_bc, bc, bio_tasks, buy_tasks>>

\* ------------------------------------------------------ text and payloads
\* str(id) and int(text) for the ids of the model.
Numeral == <<"1", "2", "3", "4", "5", "6", "7", "8", "9", "10", "11", "12",
             "13", "14", "15">>
str(n) == IF n = 0 THEN "0" ELSE Numeral[n]
ValueError == 0
int(tokens) ==
    IF Len(tokens) = 1 /\ \E n \in 1..Len(Numeral) : Numeral[n] = tokens[1]
    THEN CHOOSE n \in 1..Len(Numeral) : Numeral[n] = tokens[1]
    ELSE ValueError

\* str.replace(prefix, ""): every occurrence of the prefix is removed.
replace_with_nothing(data, prefix) == SelectSeq(data, LAMBDA t : t # prefix)

Categories == {<<"Apps">>, <<"Diuwin">>}
SeedCategories == {<<"Diuwin">>, <<"Cricket 24">>}
CategoryTexts == {<<"Apps">>, <<"category_", "Apps">>}
Names == {"Pro"}
Prices == {"199"}
FileIds == {"file1"}
Texts == {"hello"}
MaxId == 2 + MaxProducts

\* The callback data a chat can send to the shop: the buttons the bot renders
\* for any catalog, buttons of products since deleted or of a category no
\* product has, and payloads that carry no number.
ShopCallbacks ==
    {<<"premium_files">>, <<"back_to_main">>}
    \cup {<<"category_">> \o c : c \in Categories \cup SeedCategories \cup {<<"Tools">>}}
    \cup {<<p, str(i)>> : p \in {"product_", "buy_"}, i \in 1..MaxId}
    \cup {<<"product_", "x">>, <<"buy_", "x">>}

\* ----------------------------------------------------------- dispatching
\* main.py, setup_handlers: an update goes to the first handler of the list
\* that accepts it.  A conversation handler accepts, for a key in no state, its
\* entry point, and for a key in a state that state's handlers, then fallbacks.
RouteCallback(u, d) ==
    IF conv_bio[u] = END /\ d = <<"admin_change_bio">> THEN "change_bio_callback"
    ELSE IF conv_bio[u] = WAITING_BIO /\ d = <<"admin_panel">> THEN "cancel_bio"
    ELSE IF conv_bc[u] = END /\ d = <<"admin_broadcast">> THEN "broadcast_callback"
    ELSE IF conv_bc[u] = WAITING_BROADCAST /\ d = <<"admin_panel">> THEN "cancel_broadcast"
    ELSE IF d = <<"admin_panel">> THEN "admin_panel_callback"
    ELSE IF d = <<"admin_manage_products">> THEN "manage_products_callback"
    ELSE IF d = <<"admin_view_products">> THEN "view_products_callback"
    ELSE IF d = <<"admin_user_management">> THEN "user_management_callback"
    ELSE IF d = <<"admin_view_users">> THEN "view_users_callback"
    ELSE IF d = <<"premium_files">> THEN "premium_files_callback"
    ELSE IF d[1] = "category_" THEN "category_callback"
    ELSE IF d[1] = "product_" THEN "product_callback"
    ELSE IF d[1] = "buy_" THEN "buy_now_callback"
    ELSE IF d = <<"back_to_main">> THEN "back_to_main_callback"
    ELSE "handle_unknown_callback"

\* A dispatch that keeps one wizard state for all actors.
RouteText_shared(u) ==
    IF \E v \in UserIds : conv_bio[v] = WAITING_BIO THEN "handle_bio_message"
    ELSE IF \E v \in UserIds : conv_bc[v] = WAITING_BROADCAST
    THEN "handle_broadcast_message"
    ELSE "handle_message"

\* A dispatch with the generic text handler registered before the wizards.
RouteText_generic_first(u) == "handle_message"

\* A text message that is no command.
RouteText(u) ==
    IF conv_bio[u] = WAITING_BIO THEN "handle_bio_message"
    ELSE IF conv_bc[u] = WAITING_BROADCAST THEN "handle_broadcast_message"
    ELSE "handle_message"

\* The command /cancel: only the fallbacks of the conversations accept it.
RouteCancel(u) ==
    IF conv_bio[u] = WAITING_BIO THEN "cancel_bio"
    ELSE IF conv_bc[u] = WAITING_BROADCAST THEN "cancel_broadcast"
    ELSE "none"

\* ------------------------------------------------------ start-up seeding
DefaultBio == "default bio"
falsy(text) == text = NoneVal \/ text = ""

\* Seeding that writes the default bio at every start.
init_default_bio_always(tbl) == set_setting(tbl, "bio_message", DefaultBio)

\* bot_handlers.py, _init_default_data: the settings half.
init_default_bio(tbl) ==
    IF falsy(get_setting(tbl, "bio_message", NoneVal))
    THEN set_setting(tbl, "bio_message", DefaultBio)
    ELSE tbl

\* bot_handlers.py, _init_default_data: the products half.
init_default_products(tbl, seq, t) ==
    IF Len(get_all_products(tbl)) = 0
    THEN add_product(
            add_product(tbl, seq, <<"Diuwin">>, "Diuwin Premium", "features",
                        "299", "description", t),
            seq + 1, <<"Cricket 24">>, "Cricket 24 Pro", "features",
            "199", "description", t)
    ELSE tbl

init_default_seq(tbl, seq) ==
    IF Len(get_all_products(tbl)) = 0 THEN seq + 2 ELSE seq

\* DigitalProductBot.__init__ on a new database file.
InitBot ==
    /\ users = {}
    /\ admins = {}
    /\ products = init_default_products({}, 0, 0)
    /\ seq_products = init_default_seq({}, 0)
    /\ orders = {}
    /\ seq_orders = 0
    /\ settings = init_default_bio({})
    /\ now = 0
    /\ conv_bio = [u \in UserIds |-> END]
    /\ conv_bc = [u \in UserIds |-> END]
    /\ bc = NoBroadcast
    /\ ret = NoRet
    /\ out = NoOut
    /\ hist = HistInit
    /\ bio_tasks = NoTasks
    /\ buy_tasks = <<>>

\* -------------------------------------------------- calls of store methods
Call_add_admin ==
    \E u \in UserIds, by \in OWNER_IDS :
        /\ admins' = add_admin(admins, u, username_or_default(u), by, now)
        /\ hist' = [hist EXCEPT !.admin[u] = "added"]
        /\ Returned("add_admin", <<u>>, NoneVal)
        /\ UNCHANGED <<users, products, seq_products, orders, seq_orders, settings>>

Call_remove_admin ==
    \E u \in UserIds :
        /\ admins' = remove_admin(admins, u)
        /\ hist' = [hist EXCEPT !.admin[u] = "not"]
        /\ Returned("remove_admin", <<u>>, NoneVal)
        /\ UNCHANGED <<users, products, seq_products, orders, seq_orders, settings>>

Call_is_admin ==
    \E u \in UserIds :
        /\ Returned("is_admin", <<u>>, is_admin(admins, u))
        /\ UNCHANGED <<store, hist>>

Call_is_owner_or_admin ==
    \E u \in UserIds :
        /\ Returned("is_owner_or_admin", <<u>>, is_owner_or_admin(admins, u))
        /\ UNCHANGED <<store, hist>>

Call_set_setting ==
    \E k \in Keys, v \in Values :
        /\ settings' = set_setting(settings, k, v)
        /\ hist' = [hist EXCEPT !.setting[k] = v]
        /\ Returned("set_setting", <<k, v>>, NoneVal)
        /\ UNCHANGED <<users, admins, products, seq_products, orders, seq_orders>>

Call_get_setting ==
    \E k \in Keys, d \in Defaults :
        /\ Returned("get_setting", <<k, d>>, get_setting(settings, k, d))
        /\ UNCHANGED <<store, hist>>

\* add_product called with a category text of the given set.
Call_add_product_of(cats) ==
    \E c \in cats, n \in Names, p \in Prices :
        /\ seq_products < MaxId
        /\ products' = add_product(products, seq_products, c, n, "features", p,
                                   "description", now)
        /\ seq_products' = seq_products + 1
        /\ Returned("add_product", <<c, n, p>>, NoneVal)
        /\ UNCHANGED <<users, admins, orders, seq_orders, settings, hist>>

Call_add_product == Call_add_product_of(Categories)

\* The category is free text: it may hold the text "category_" itself.
Call_add_product_text == Call_add_product_of(CategoryTexts)

Call_delete_product ==
    \E id \in 1..MaxId :
        /\ products' = delete_product(products, id)
        /\ Returned("delete_product", <<id>>, NoneVal)
        /\ UNCHANGED <<users, admins, seq_products, orders, seq_orders, settings, hist>>

Call_get_all_users ==
    /\ Returned("get_all_users", <<>>, get_all_users(users))
    /\ UNCHANGED <<store, hist>>

Call_get_user_count ==
    /\ Returned("get_user_count", <<>>, get_user_count(users))
    /\ UNCHANGED <<store, hist>>

\* ------------------------------------------------------- handled updates
\* A call of the chat transport made by a handler: ok is FALSE when it raised.
Reply(call, text, markup, ok) ==
    [call |-> call, text |-> text, markup |-> markup, ok |-> ok]
Button(text, data) == [text |-> text, data |-> data]
\* Every awaited transport call either returns or raises.
Send(call, text, markup) == {Reply(call, text, markup, ok) : ok \in BOOLEAN}
Answer == Send("answer", <<>>, <<>>)
Raises(reply) == IF reply.ok THEN "none" ELSE "TelegramError"

\* main.py, error_handler: runs when an exception leaves a handler and tries a
\* notice to the chat; whether the notice arrives changes nothing (a failure is
\* logged), so the attempt is what is recorded.
error_handler(raised) == IF raised = "none" THEN {"none"} ELSE {"attempted"}

\* The handler h has handled the update (u, d): the transport calls it made, in
\* order, and the exception that left it.
Logged(h, u, d, replies, raised) ==
    /\ \E n \in error_handler(raised) :
          out' = [handler |-> h, user |-> u, data |-> d, replies |-> replies,
                  raised |-> raised, notice |-> n]
    /\ ret' = NoRet

\* The same for a handler taken in one step: it leaves no coroutine waiting.
Handled(h, u, d, replies, raised) ==
    /\ Logged(h, u, d, replies, raised)
    /\ UNCHANGED <<now, bio_tasks, buy_tasks>>

\* The iteration orders of a Python set.
Orderings(S) ==
    {f \in [1..Cardinality(S) -> S] : \A i, j \in DOMAIN f : i # j => f[i] # f[j]}

MainMenu(u) ==
    <<Button(<<"Premium Files">>, <<"premium_files">>)>> \o
    (IF is_admin(admins, u) \/ u \in OWNER_IDS
     THEN <<Button(<<"Admin Panel">>, <<"admin_panel">>)>> ELSE <<>>)

BackToMain == Button(<<"Back to Main">>, <<"back_to_main">>)
BackToCategories == Button(<<"Back to Categories">>, <<"premium_files">>)

\* ---------------------------------------------- bot_handlers.py: the shop
\* The typing indicator is a detached task that touches no state: left out.
start_command ==
    \E u \in UserIds :
        LET bio == get_setting(settings, "bio_message", "Welcome to our store!")
        IN  /\ users' = update_user_activity(
                            add_user(users, u, username_or_default(u), FirstName(u),
                                     "", now), u, now)
            /\ \E reply \in Send("reply_text", <<"welcome", bio>>, MainMenu(u)) :
                  Handled("start_command", u, <<"/start">>, <<reply>>, Raises(reply))
            /\ UNCHANGED <<admins, products, seq_products, orders, seq_orders,
                           settings, conv_bio, conv_bc, bc, hist>>

\* [product['category'] for product in products], without the set().
categories_with_repeats(prods) == {[i \in 1..Len(prods) |-> prods[i].category]}

\* list(set(product['category'] for product in products)): the lists this can
\* be, one for each iteration order of the set.
categories_listed(prods) == Orderings({prods[i].category : i \in 1..Len(prods)})

\* The keyboard premium_files_callback renders for the categories it lists.
category_keyboard(listed) ==
    [i \in 1..Len(listed) |->
        Button(<<"folder">> \o listed[i], <<"category_">> \o listed[i])]
    \o <<BackToMain>>

premium_files_callback ==
    \E u \in UserIds, ack \in Answer :
        LET d == <<"premium_files">>
            prods == get_all_products(products)
        IN  /\ RouteCallback(u, d) = "premium_files_callback"
            /\ IF ~ack.ok
               THEN /\ users' = users
                    /\ Handled("premium_files_callback", u, d, <<ack>>, Raises(ack))
               ELSE /\ users' = update_user_activity(users, u, now)
                    /\ \E listed \in categories_listed(prods) :
                        \E reply \in
                            IF Len(listed) = 0
                            THEN Send("edit_message_text", <<"No products available">>,
                                      <<BackToMain>>)
                            ELSE Send("edit_message_text", <<"Choose a category">>,
                                      category_keyboard(listed)) :
                            Handled("premium_files_callback", u, d, <<ack, reply>>,
                                    Raises(reply))
            /\ UNCHANGED <<admins, products, seq_products, orders, seq_orders,
                           settings, conv_bio, conv_bc, bc, hist>>

\* The reply of category_callback for the category it decoded.
category_reply(category, prods) ==
    IF Len(prods) = 0
    THEN Send("edit_message_text", <<"No products found in">> \o category,
              <<BackToCategories>>)
    ELSE Send("edit_message_text", <<"Products of">> \o category,
              [i \in 1..Len(prods) |->
                  Button(<<"target", prods[i].name, prods[i].price>>,
                         <<"product_", str(prods[i].id)>>)]
              \o <<BackToCategories>>)

\* category_callback for a press of one of the given payloads.
category_callback_on(payloads) ==
    \E u \in UserIds, d \in payloads, ack \in Answer :
        LET category == replace_with_nothing(d, "category_")
            prods == get_products_by_category(products, category)
        IN  /\ RouteCallback(u, d) = "category_callback"
            /\ IF ~ack.ok
               THEN Handled("category_callback", u, d, <<ack>>, Raises(ack))
               ELSE \E reply \in category_reply(category, prods) :
                        Handled("category_callback", u, d, <<ack, reply>>, Raises(reply))
            /\ UNCHANGED <<store, conv_bio, conv_bc, bc, hist>>

category_callback == category_callback_on(ShopCallbacks)

\* The category buttons premium_files_callback renders for the catalog.
CategoryButtons == {category_keyboard(<<r.category>>)[1].data : r \in products}

\* A press of a category button that the bot has rendered for the catalog.
category_button_pressed == category_callback_on(CategoryButtons)

\* A lookup that falls back to the first product when the id is missing.
find_product_or_first(prods, product_id) ==
    LET found == {i \in 1..Len(prods) : prods[i].id = product_id}
    IN  IF found # {} THEN <<prods[CHOOSE i \in found : \A j \in found : i <= j]>>
        ELSE IF Len(prods) = 0 THEN <<>>
        ELSE <<prods[1]>>

\* next((p for p in products if p['id'] == product_id), None): the first match
\* as a one-row sequence, None as the empty sequence.
find_product(prods, product_id) ==
    LET found == {i \in 1..Len(prods) : prods[i].id = product_id}
    IN  IF found = {} THEN <<>>
        ELSE <<prods[CHOOSE i \in found : \A j \in found : i <= j]>>

\* bot_handlers.py, show_product_details
show_product_details(product) ==
    Send("edit_message_text",
         <<"product", product.name, product.features, product.price,
           product.description>>,
         <<Button(<<"Buy Now">>, <<"buy_", str(product.id)>>),
           Button(<<"Back to Products">>, <<"category_">> \o product.category)>>)

ProductNotFound(markup) == Send("edit_message_text", <<"Product not found!">>, markup)

product_callback ==
    \E u \in UserIds, d \in ShopCallbacks, ack \in Answer :
        LET product_id == int(replace_with_nothing(d, "product_"))
            product == find_product(get_all_products(products), product_id)
        IN  /\ RouteCallback(u, d) = "product_callback"
            /\ IF ~ack.ok
               THEN Handled("product_callback", u, d, <<ack>>, Raises(ack))
               ELSE IF product_id = ValueError
               THEN Handled("product_callback", u, d, <<ack>>, "ValueError")
               ELSE \E reply \in
                        IF Len(product) = 0
                        THEN ProductNotFound(<<Button(<<"Back">>, <<"premium_files">>)>>)
                        ELSE show_product_details(product[1]) :
                        Handled("product_callback", u, d, <<ack, reply>>, Raises(reply))
            /\ UNCHANGED <<store, conv_bio, conv_bc, bc, hist>>

\* qr_code.py, create_payment_qr_message: the amount line is left out for an
\* empty amount.
create_payment_qr_message(amount) ==
    IF falsy(amount) THEN <<"Payment Instructions">>
    ELSE <<"Payment Instructions", amount>>

\* bot_handlers.py, buy_now_callback, after the order row is written: the
\* payment message goes out with the QR image when the image file exists, and
\* as text when it does not or when sending the image or deleting the old
\* message raised.  The set of the call sequences that can result.
payment_replies(product_id, price) ==
    LET text == create_payment_qr_message(price)
        markup == <<Button(<<"Upload Screenshot">>,
                           <<"upload_screenshot_", str(product_id)>>),
                    Button(<<"Main Menu">>, <<"back_to_main">>)>>
        photo(ok) == Reply("reply_photo", text, markup, ok)
        delete(ok) == Reply("delete_message", <<>>, <<>>, ok)
        edits == Send("edit_message_text", text, markup)
    IN  {<<edit>> : edit \in edits}
        \cup {<<photo(FALSE), edit>> : edit \in edits}
        \cup {<<photo(TRUE), delete(FALSE), edit>> : edit \in edits}
        \cup {<<photo(TRUE), delete(TRUE)>>}

\* The order row buy_now_callback writes for the product it found.
buy_order_first_product(tbl, seq, u, prods, product, t) ==
    add_order(tbl, seq, u, prods[1].name, prods[1].price, NoneVal, t)

buy_order(tbl, seq, u, prods, product, t) ==
    add_order(tbl, seq, u, product.name, product.price, NoneVal, t)

\* A lookup in the catalog as it was read before the await of query.answer().
buy_lookup_before_answer(seen, tbl, product_id) == find_product(seen, product_id)

\* buy_now_callback, lines 224-226: the catalog is read from the store after
\* query.answer() has returned; seen is the catalog at the press of the button.
buy_lookup(seen, tbl, product_id) == find_product(get_all_products(tbl), product_id)

\* buy_now_callback from the return of query.answer(): no await stands between
\* the lookup and the insert, and the awaits after the insert touch no state.
buy_now_handled(u, d, ack, seen) ==
    LET product_id == int(replace_with_nothing(d, "buy_"))
        prods == get_all_products(products)
        product == buy_lookup(seen, products, product_id)
    IN  IF ~ack.ok
        THEN /\ UNCHANGED <<orders, seq_orders>>
             /\ Logged("buy_now_callback", u, d, <<ack>>, Raises(ack))
        ELSE IF product_id = ValueError
        THEN /\ UNCHANGED <<orders, seq_orders>>
             /\ Logged("buy_now_callback", u, d, <<ack>>, "ValueError")
        ELSE IF Len(product) = 0
        THEN /\ UNCHANGED <<orders, seq_orders>>
             /\ \E missing \in ProductNotFound(<<>>) :
                   Logged("buy_now_callback", u, d, <<ack, missing>>,
                          Raises(missing))
        ELSE /\ orders' = buy_order(orders, seq_orders, u, prods, product[1], now)
             /\ seq_orders' = seq_orders + 1
             /\ \E sent \in payment_replies(product_id, product[1].price) :
                   Logged("buy_now_callback", u, d, <<ack>> \o sent,
                          Raises(sent[Len(sent)]))

\* The handler with nothing else running during its first await.
buy_now_callback ==
    \E u \in UserIds, d \in ShopCallbacks, ack \in Answer :
        /\ RouteCallback(u, d) = "buy_now_callback"
        /\ seq_orders < MaxOrders
        /\ buy_now_handled(u, d, ack, get_all_products(products))
        /\ UNCHANGED <<users, admins, products, seq_products, settings, now,
                       conv_bio, conv_bc, bc, bio_tasks, buy_tasks, hist>>

\* The handler as the dispatcher runs it with concurrent_updates(True): it is
\* suspended at await query.answer() while other updates and store calls run...
buy_now_callback_await ==
    \E u \in UserIds, d \in ShopCallbacks :
        /\ RouteCallback(u, d) = "buy_now_callback"
        /\ Len(buy_tasks) < MaxTasks
        /\ buy_tasks' = Append(buy_tasks, [user |-> u, data |-> d,
                                           seen |-> get_all_products(products)])
        /\ out' = [handler |-> "buy_now_callback", user |-> u, data |-> d,
                   replies |-> <<>>, raised |-> "none", notice |-> "none"]
        /\ ret' = NoRet
        /\ UNCHANGED <<store, now, conv_bio, conv_bc, bc, bio_tasks, hist>>

\* ... and goes on when the call returns or raises. The waiting handlers are
\* resumed in any order.
buy_now_callback_resume ==
    \E k \in 1..Len(buy_tasks), ack \in Answer :
        LET task == buy_tasks[k]
            product_id == int(replace_with_nothing(task.data, "buy_"))
        IN  /\ seq_orders < MaxOrders
            /\ buy_now_handled(task.user, task.data, ack, task.seen)
            /\ buy_tasks' = SubSeq(buy_tasks, 1, k - 1)
                                \o SubSeq(buy_tasks, k + 1, Len(buy_tasks))
            /\ hist' = [hist EXCEPT !.raced =
                            /\ Len(find_product(task.seen, product_id)) = 1
                            /\ Len(find_product(get_all_products(products),
                                                product_id)) = 0]
            /\ UNCHANGED <<users, admins, products, seq_products, settings, now,
                           conv_bio, conv_bc, bc, bio_tasks>>

back_to_main_callback ==
    \E u \in UserIds, ack \in Answer :
        LET d == <<"back_to_main">>
            bio == get_setting(settings, "bio_message", "Welcome to our store!")
        IN  /\ RouteCallback(u, d) = "back_to_main_callback"
            /\ IF ~ack.ok
               THEN Handled("back_to_main_callback", u, d, <<ack>>, Raises(ack))
               ELSE \E reply \in Send("edit_message_text", <<bio>>, MainMenu(u)) :
                        Handled("back_to_main_callback", u, d, <<ack, reply>>,
                                Raises(reply))
            /\ UNCHANGED <<store, conv_bio, conv_bc, bc, hist>>

\* The row is written first; a failed confirmation is answered with the error
\* text, and only a failure of that second reply leaves the handler.
\* The screenshot's row attached only to a user that has an order already.
photo_order_needs_purchase(tbl, seq, u, file_id, t) ==
    IF \E r \in tbl : r.user_id = u
    THEN add_order(tbl, seq, u, "Screenshot Upload", "0", file_id, t)
    ELSE tbl

\* handle_photo: the row it saves for the screenshot.
photo_order(tbl, seq, u, file_id, t) ==
    add_order(tbl, seq, u, "Screenshot Upload", "0", file_id, t)

handle_photo ==
    \E u \in UserIds, file_id \in FileIds :
        /\ seq_orders < MaxOrders
        /\ orders' = photo_order(orders, seq_orders, u, file_id, now)
        /\ seq_orders' = seq_orders + 1
        /\ \E received \in Send("reply_text", <<"Payment Screenshot Received">>, <<>>) :
              IF received.ok
              THEN Handled("handle_photo", u, <<file_id>>, <<received>>, "none")
              ELSE \E failed \in Send("reply_text", <<"Error processing screenshot">>,
                                      <<>>) :
                      Handled("handle_photo", u, <<file_id>>, <<received, failed>>,
                              Raises(failed))
        /\ UNCHANGED <<users, admins, products, seq_products, settings,
                       conv_bio, conv_bc, bc, hist>>

handle_message ==
    \E u \in UserIds, text \in Texts :
        /\ RouteText(u) = "handle_message"
        /\ users' = add_user(users, u, username_or_default(u), FirstName(u), "", now)
        /\ \E reply \in Send("reply_text", <<"Hello! Use /start">>,
                             <<Button(<<"Get Started">>, <<"back_to_main">>)>>) :
              Handled("handle_message", u, <<text>>, <<reply>>, Raises(reply))
        /\ UNCHANGED <<admins, products, seq_products, orders, seq_orders,
                       settings, conv_bio, conv_bc, bc, hist>>

\* ------------------------------------------ admin_handlers.py: the panel
AccessDenied == <<"Access denied!">>
PanelDenied == <<"Access Denied! You don't have admin privileges.">>
BackToPanel == Button(<<"Back to Admin Panel">>, <<"admin_panel">>)
CancelButton == Button(<<"Cancel">>, <<"admin_panel">>)

\* utils.py, format_admin_stats
format_admin_stats(users_tbl, products_tbl) ==
    <<"Bot Statistics", str(get_user_count(users_tbl)),
      str(Len(get_all_products(products_tbl)))>>

\* The panel's last edit is inside try/except: its failure is logged only.
admin_panel_callback ==
    \E u \in UserIds, ack \in Answer :
        LET d == <<"admin_panel">>
            keyboard ==
                <<Button(<<"Change Bio">>, <<"admin_change_bio">>),
                  Button(<<"Manage Products">>, <<"admin_manage_products">>),
                  Button(<<"User Management">>, <<"admin_user_management">>),
                  Button(<<"Broadcast Message">>, <<"admin_broadcast">>)>>
                \o (IF u \in OWNER_IDS
                    THEN <<Button(<<"Admin Management">>, <<"admin_manage_admins">>)>>
                    ELSE <<>>)
                \o <<Button(<<"Back to Main">>, <<"back_to_main">>)>>
        IN  /\ RouteCallback(u, d) = "admin_panel_callback"
            /\ IF ~ack.ok
               THEN Handled("admin_panel_callback", u, d, <<ack>>, Raises(ack))
               ELSE IF ~is_owner_or_admin(admins, u)
               THEN \E reply \in Send("edit_message_text", PanelDenied,
                                      <<Button(<<"Back">>, <<"back_to_main">>)>>) :
                        Handled("admin_panel_callback", u, d, <<ack, reply>>,
                                Raises(reply))
               ELSE \E reply \in Send("edit_message_text",
                                      <<"Admin Panel">> \o
                                          format_admin_stats(users, products),
                                      keyboard) :
                        Handled("admin_panel_callback", u, d, <<ack, reply>>, "none")
            /\ UNCHANGED <<store, conv_bio, conv_bc, bc, hist>>

\* A callback handler that answers the query, refuses who fails the access
\* predicate and otherwise edits the message to the content; it writes nothing.
privileged_view(h, d, content) ==
    \E u \in UserIds, ack \in Answer :
        /\ RouteCallback(u, d) = h
        /\ IF ~ack.ok
           THEN Handled(h, u, d, <<ack>>, Raises(ack))
           ELSE \E reply \in
                    IF ~is_owner_or_admin(admins, u)
                    THEN Send("edit_message_text", AccessDenied, <<>>)
                    ELSE content :
                    Handled(h, u, d, <<ack, reply>>, Raises(reply))
        /\ UNCHANGED <<store, conv_bio, conv_bc, bc, hist>>

manage_products_reply ==
    Send("edit_message_text",
         <<"Product Management", str(Len(get_all_products(products)))>>,
         <<Button(<<"View All Products">>, <<"admin_view_products">>),
           Button(<<"Add New Product">>, <<"admin_add_product">>),
           Button(<<"Edit Product">>, <<"admin_edit_product">>),
           Button(<<"Delete Product">>, <<"admin_delete_product">>),
           BackToPanel>>)

manage_products_callback ==
    privileged_view("manage_products_callback", <<"admin_manage_products">>,
                    manage_products_reply)

view_products_reply ==
    LET prods == get_all_products(products)
    IN  Send("edit_message_text",
             IF Len(prods) = 0 THEN <<"All Products", "No products found.">>
             ELSE <<"All Products">> \o [i \in 1..Len(prods) |-> prods[i].name],
             <<Button(<<"Back to Products">>, <<"admin_manage_products">>)>>)

view_products_callback ==
    privileged_view("view_products_callback", <<"admin_view_products">>,
                    view_products_reply)

user_management_reply ==
    Send("edit_message_text", <<"User Management", str(get_user_count(users))>>,
         <<Button(<<"View All Users">>, <<"admin_view_users">>),
           Button(<<"User Statistics">>, <<"admin_user_stats">>),
           BackToPanel>>)

user_management_callback ==
    privileged_view("user_management_callback", <<"admin_user_management">>,
                    user_management_reply)

\* The first 10 users are shown, the rest counted.
view_users_reply ==
    LET rows == get_all_users(users)
        shown == IF Len(rows) > 10 THEN 10 ELSE Len(rows)
    IN  Send("edit_message_text",
             IF Len(rows) = 0 THEN <<"All Users", "No users found.">>
             ELSE <<"All Users">> \o [i \in 1..shown |-> str(rows[i].user_id)]
                  \o (IF Len(rows) > 10 THEN <<"more", str(Len(rows) - 10)>> ELSE <<>>),
             <<Button(<<"Back to User Management">>, <<"admin_user_management">>)>>)

view_users_callback ==
    privileged_view("view_users_callback", <<"admin_view_users">>, view_users_reply)

\* main.py, handle_unknown_callback: the buttons no handler is registered for,
\* and a wizard's entry button pressed while that wizard waits.
UnknownCallbacks ==
    {<<"admin_manage_admins">>, <<"admin_change_bio">>, <<"admin_broadcast">>}

handle_unknown_callback ==
    \E u \in UserIds, d \in UnknownCallbacks :
        /\ RouteCallback(u, d) = "handle_unknown_callback"
        /\ \E ack \in Send("answer", <<"This action is not available.">>, <<>>) :
              Handled("handle_unknown_callback", u, d, <<ack>>, Raises(ack))
        /\ UNCHANGED <<store, conv_bio, conv_bc, bc, hist>>

\* ---------------------------------------- admin_handlers.py: the wizards
\* A wizard's entry point: the state it returns is stored only when no
\* exception leaves the handler; a return without a value stores nothing.
change_bio_callback ==
    \E u \in UserIds, ack \in Answer :
        LET d == <<"admin_change_bio">>
            current_bio == get_setting(settings, "bio_message", "Default bio message")
        IN  /\ RouteCallback(u, d) = "change_bio_callback"
            /\ IF ~ack.ok
               THEN /\ Handled("change_bio_callback", u, d, <<ack>>, Raises(ack))
                    /\ UNCHANGED conv_bio
               ELSE IF ~is_owner_or_admin(admins, u)
               THEN /\ \E reply \in Send("edit_message_text", AccessDenied, <<>>) :
                          Handled("change_bio_callback", u, d, <<ack, reply>>,
                                  Raises(reply))
                    /\ UNCHANGED conv_bio
               ELSE \E reply \in Send("edit_message_text",
                                      <<"Change Bio Message", current_bio>>,
                                      <<CancelButton>>) :
                        /\ Handled("change_bio_callback", u, d, <<ack, reply>>,
                                   Raises(reply))
                        /\ conv_bio' = IF reply.ok
                                       THEN [conv_bio EXCEPT ![u] = WAITING_BIO]
                                       ELSE conv_bio
            /\ UNCHANGED <<store, conv_bc, bc, hist>>

broadcast_callback ==
    \E u \in UserIds, ack \in Answer :
        LET d == <<"admin_broadcast">>
        IN  /\ RouteCallback(u, d) = "broadcast_callback"
            /\ IF ~ack.ok
               THEN /\ Handled("broadcast_callback", u, d, <<ack>>, Raises(ack))
                    /\ UNCHANGED conv_bc
               ELSE IF ~is_owner_or_admin(admins, u)
               THEN /\ \E reply \in Send("edit_message_text", AccessDenied, <<>>) :
                          Handled("broadcast_callback", u, d, <<ack, reply>>,
                                  Raises(reply))
                    /\ UNCHANGED conv_bc
               ELSE \E reply \in Send("edit_message_text",
                                      <<"Broadcast Message", str(get_user_count(users))>>,
                                      <<CancelButton>>) :
                        /\ Handled("broadcast_callback", u, d, <<ack, reply>>,
                                   Raises(reply))
                        /\ conv_bc' = IF reply.ok
                                      THEN [conv_bc EXCEPT ![u] = WAITING_BROADCAST]
                                      ELSE conv_bc
            /\ UNCHANGED <<store, conv_bio, bc, hist>>

handle_bio_message ==
    \E u \in UserIds, new_bio \in Texts :
        /\ RouteText(u) = "handle_bio_message"
        /\ IF ~is_owner_or_admin(admins, u)
           THEN /\ \E reply \in Send("reply_text", AccessDenied, <<>>) :
                      /\ Handled("handle_bio_message", u, <<new_bio>>, <<reply>>,
                                 Raises(reply))
                      /\ conv_bio' = IF reply.ok THEN [conv_bio EXCEPT ![u] = END]
                                     ELSE conv_bio
                /\ UNCHANGED <<settings, hist>>
           ELSE /\ settings' = set_setting(settings, "bio_message", new_bio)
                /\ hist' = [hist EXCEPT !.setting["bio_message"] = new_bio]
                /\ \E reply \in Send("reply_text",
                                     <<"Bio Updated Successfully!", new_bio>>, <<>>) :
                      /\ Handled("handle_bio_message", u, <<new_bio>>, <<reply>>,
                                 Raises(reply))
                      /\ conv_bio' = IF reply.ok THEN [conv_bio EXCEPT ![u] = END]
                                     ELSE conv_bio
        /\ UNCHANGED <<users, admins, products, seq_products, orders, seq_orders,
                       conv_bc, bc>>

\* handle_bio_message as the dispatcher runs it with concurrent_updates(True):
\* every update is a task of its own, so a handler that waits for its reply
\* does not hold back the next update of the same chat. The handler runs to
\* its await (the check, and for an admitted actor the set_setting) ...
handle_bio_message_await ==
    \E u \in UserIds, new_bio \in Texts :
        /\ RouteText(u) = "handle_bio_message"
        /\ Len(bio_tasks[u]) < MaxTasks
        /\ IF ~is_owner_or_admin(admins, u)
           THEN /\ bio_tasks' = [bio_tasks EXCEPT ![u] = Append(@, AccessDenied)]
                /\ UNCHANGED <<settings, hist>>
           ELSE /\ settings' = set_setting(settings, "bio_message", new_bio)
                /\ hist' = [hist EXCEPT !.setting["bio_message"] = new_bio]
                /\ bio_tasks' = [bio_tasks EXCEPT ![u] =
                                    Append(@, <<"Bio Updated Successfully!", new_bio>>)]
        /\ out' = [handler |-> "handle_bio_message", user |-> u,
                   data |-> <<new_bio>>, replies |-> <<>>, raised |-> "none",
                   notice |-> "none"]
        /\ ret' = NoRet
        /\ UNCHANGED <<users, admins, products, seq_products, orders, seq_orders,
                       now, conv_bio, conv_bc, bc, buy_tasks>>

\* ... and is resumed when its reply returns or raises: only then is the state
\* it returns stored. The waiting handlers finish in any order.
handle_bio_message_resume ==
    \E u \in UserIds :
        \E k \in 1..Len(bio_tasks[u]) :
            \E reply \in Send("reply_text", bio_tasks[u][k], <<>>) :
                /\ bio_tasks' = [bio_tasks EXCEPT ![u] =
                                    SubSeq(@, 1, k - 1) \o SubSeq(@, k + 1, Len(@))]
                /\ conv_bio' = IF reply.ok THEN [conv_bio EXCEPT ![u] = END]
                               ELSE conv_bio
                /\ \E n \in error_handler(Raises(reply)) :
                      out' = [handler |-> "handle_bio_message", user |-> u,
                              data |-> <<>>, replies |-> <<reply>>,
                              raised |-> Raises(reply), notice |-> n]
                /\ ret' = NoRet
                /\ UNCHANGED <<store, now, conv_bc, bc, buy_tasks, hist>>

\* bot.send_message to one chat.
Delivery(chat_id, text, ok) ==
    [call |-> "send_message", chat_id |-> chat_id, text |-> text,
     markup |-> <<>>, ok |-> ok]

\* The status message is edited after every tenth delivery.
ProgressEvery == 10

broadcast_status(title, total, sent_count, failed_count) ==
    <<title, str(total), str(sent_count), str(failed_count)>>

\* handle_broadcast_message up to its loop: the handler is a coroutine that other
\* updates interleave with at each awaited delivery, so the loop is taken one
\* recipient at a time. One such coroutine is followed at a time.
handle_broadcast_message ==
    \E u \in UserIds, broadcast_text \in Texts :
        /\ RouteText(u) = "handle_broadcast_message"
        /\ bc.pc = "idle"
        /\ IF ~is_owner_or_admin(admins, u)
           THEN \E reply \in Send("reply_text", AccessDenied, <<>>) :
                    /\ Handled("handle_broadcast_message", u, <<broadcast_text>>,
                               <<reply>>, Raises(reply))
                    /\ conv_bc' = IF reply.ok THEN [conv_bc EXCEPT ![u] = END]
                                  ELSE conv_bc
                    /\ UNCHANGED bc
           ELSE LET rows == get_all_users(users)
                IN  \E status \in Send("reply_text",
                                       broadcast_status("Broadcasting Message...",
                                                        Len(rows), 0, 0), <<>>) :
                        /\ Handled("handle_broadcast_message", u, <<broadcast_text>>,
                                   <<status>>, Raises(status))
                        /\ bc' = IF status.ok
                                 THEN [pc |-> "loop", user |-> u,
                                       text |-> broadcast_text,
                                       users |-> [i \in 1..Len(rows) |-> rows[i].user_id],
                                       i |-> 1, sent_count |-> 0,
                                       failed_count |-> 0, rejected |-> 0,
                                       attempted |-> <<>>]
                                 ELSE bc
                        /\ UNCHANGED conv_bc
        /\ UNCHANGED <<store, conv_bio, hist>>

\* A loop that stays at a recipient until the delivery is accepted.
next_recipient_retry(i, delivered) == IF delivered THEN i + 1 ELSE i

\* for user in users: the next iteration takes the next user, whatever became
\* of the delivery.
next_recipient(i, delivered) == i + 1

\* One iteration of the loop: the delivery, the count, the progress edit inside
\* the same try block, and the except branch that catches either failure.
\* bc.attempted lists the chats a delivery was attempted to, bc.rejected counts
\* the deliveries that raised.
handle_broadcast_message_loop ==
    /\ bc.pc = "loop"
    /\ bc.i <= Len(bc.users)
    /\ \E ok \in BOOLEAN :
          LET sent == Delivery(bc.users[bc.i],
                               <<"Broadcast Message", bc.text>>, ok)
              sent_count == bc.sent_count + 1
          IN  IF ~ok
              THEN /\ bc' = [bc EXCEPT !.i = next_recipient(@, ok),
                                       !.failed_count = @ + 1,
                                       !.rejected = @ + 1,
                                       !.attempted = Append(@, bc.users[bc.i])]
                   /\ Handled("handle_broadcast_message", bc.user, <<bc.text>>,
                              <<sent>>, "none")
              ELSE IF sent_count % ProgressEvery # 0
              THEN /\ bc' = [bc EXCEPT !.i = next_recipient(@, ok),
                                       !.sent_count = sent_count,
                                       !.attempted = Append(@, bc.users[bc.i])]
                   /\ Handled("handle_broadcast_message", bc.user, <<bc.text>>,
                              <<sent>>, "none")
              ELSE \E edit \in Send("edit_text",
                                    broadcast_status("Broadcasting Message...",
                                                     Len(bc.users), sent_count,
                                                     bc.failed_count), <<>>) :
                       /\ bc' = [bc EXCEPT !.i = next_recipient(@, ok),
                                           !.sent_count = sent_count,
                                           !.failed_count =
                                               IF edit.ok THEN @ ELSE @ + 1,
                                           !.attempted = Append(@, bc.users[bc.i])]
                       /\ Handled("handle_broadcast_message", bc.user, <<bc.text>>,
                                  <<sent, edit>>, "none")
    /\ UNCHANGED <<store, conv_bio, conv_bc, hist>>

\* After the loop: the summary, and the state the handler returns.
handle_broadcast_message_return ==
    /\ bc.pc = "loop"
    /\ bc.i > Len(bc.users)
    /\ \E summary \in Send("edit_text",
                           broadcast_status("Broadcast Completed!", Len(bc.users),
                                            bc.sent_count, bc.failed_count), <<>>) :
          /\ Handled("handle_broadcast_message", bc.user, <<bc.text>>,
                     <<summary>>, Raises(summary))
          /\ conv_bc' = IF summary.ok THEN [conv_bc EXCEPT ![bc.user] = END]
                        ELSE conv_bc
    /\ bc' = NoBroadcast
    /\ UNCHANGED <<store, conv_bio, hist>>

\* The fallback of both wizards: the /cancel command is a message and gets a
\* reply, the Cancel button is a callback query and gets none.
cancel_conversation ==
    \E u \in UserIds, via \in {"/cancel", "button"} :
        LET which == IF via = "button" THEN RouteCallback(u, <<"admin_panel">>)
                     ELSE RouteCancel(u)
            ends(reply) ==
                /\ Handled("cancel_conversation", u, <<via, which>>, reply,
                           IF reply = <<>> THEN "none" ELSE Raises(reply[1]))
                /\ IF reply # <<>> /\ ~reply[1].ok
                   THEN UNCHANGED <<conv_bio, conv_bc>>
                   ELSE IF which = "cancel_bio"
                   THEN conv_bio' = [conv_bio EXCEPT ![u] = END] /\ UNCHANGED conv_bc
                   ELSE conv_bc' = [conv_bc EXCEPT ![u] = END] /\ UNCHANGED conv_bio
        IN  /\ which \in {"cancel_bio", "cancel_broadcast"}
            /\ IF via = "button" THEN ends(<<>>)
               ELSE \E reply \in Send("reply_text", <<"Operation cancelled.">>, <<>>) :
                        ends(<<reply>>)
            /\ UNCHANGED <<store, bc, hist>>

\* --------------------------------------- admin_handlers.py: the commands
\* The arguments of /addadmin and /removeadmin: none, or one word "@handle"
\* naming an actor that is no owner.
AdminArgs ==
    {<<>>} \cup {<<(<<"@", Username(x)>>)>> : x \in {y \in UserIds \ OWNER_IDS :
                                                      Username(y) # ""}}

\* The owner check, the usage text, then the confirmation: between the two the
\* source has the comment "Add admin logic here" and no call of the store.
addadmin_command ==
    \E u \in UserIds, args \in AdminArgs :
        /\ \E reply \in
              IF u \notin OWNER_IDS
              THEN Send("reply_text", <<"Only owners can add admins!">>, <<>>)
              ELSE IF args = <<>>
              THEN Send("reply_text", <<"Usage: /addadmin @username">>, <<>>)
              ELSE Send("reply_text",
                        <<"@">> \o replace_with_nothing(args[1], "@")
                            \o <<"has been added as admin!">>, <<>>) :
              Handled("addadmin_command", u, <<"/addadmin">> \o args, <<reply>>,
                      Raises(reply))
        /\ UNCHANGED <<store, conv_bio, conv_bc, bc, hist>>

removeadmin_command ==
    \E u \in UserIds, args \in AdminArgs :
        /\ \E reply \in
              IF u \notin OWNER_IDS
              THEN Send("reply_text", <<"Only owners can remove admins!">>, <<>>)
              ELSE IF args = <<>>
              THEN Send("reply_text", <<"Usage: /removeadmin @username">>, <<>>)
              ELSE Send("reply_text",
                        <<"@">> \o replace_with_nothing(args[1], "@")
                            \o <<"has been removed from admin!">>, <<>>) :
              Handled("removeadmin_command", u, <<"/removeadmin">> \o args,
                      <<reply>>, Raises(reply))
        /\ UNCHANGED <<store, conv_bio, conv_bc, bc, hist>>

users_command ==
    \E u \in UserIds :
        /\ \E reply \in
              IF ~is_owner_or_admin(admins, u)
              THEN Send("reply_text", AccessDenied, <<>>)
              ELSE Send("reply_text", <<"Total Users", str(get_user_count(users))>>,
                        <<>>) :
              Handled("users_command", u, <<"/users">>, <<reply>>, Raises(reply))
        /\ UNCHANGED <<store, conv_bio, conv_bc, bc, hist>>

\* /broadcast: a failed delivery is logged and not counted; the command runs
\* outside the wizards and is taken in one step.
broadcast_command ==
    \E u \in UserIds, args \in {<<>>, <<"hi">>} :
        /\ IF ~is_owner_or_admin(admins, u)
           THEN \E reply \in Send("reply_text", AccessDenied, <<>>) :
                    Handled("broadcast_command", u, <<"/broadcast">> \o args,
                            <<reply>>, Raises(reply))
           ELSE IF args = <<>>
           THEN \E reply \in Send("reply_text", <<"Usage: /broadcast <message>">>,
                                  <<>>) :
                    Handled("broadcast_command", u, <<"/broadcast">> \o args,
                            <<reply>>, Raises(reply))
           ELSE LET rows == get_all_users(users)
                IN  \E rejected \in SUBSET (1..Len(rows)) :
                        LET sends == [i \in 1..Len(rows) |->
                                         Delivery(rows[i].user_id, args,
                                                  i \notin rejected)]
                            sent_count == Len(rows) - Cardinality(rejected)
                        IN  \E reply \in Send("reply_text",
                                              <<"Broadcast sent", str(sent_count)>>,
                                              <<>>) :
                                Handled("broadcast_command", u,
                                        <<"/broadcast">> \o args,
                                        sends \o <<reply>>, Raises(reply))
        /\ UNCHANGED <<store, conv_bio, conv_bc, bc, hist>>

\* ------------------------------------------------------- specifications
\* The store's methods called one at a time on a new database.
NextStore ==
    \/ Call_add_admin
    \/ Call_remove_admin
    \/ Call_is_admin
    \/ Call_is_owner_or_admin
    \/ Call_set_setting
    \/ Call_get_setting

SpecStore == InitStore /\ [][NextStore]_vars

\* The catalog: the chat browses it while it is edited through the store's
\* add_product and delete_product.
NextCatalog ==
    \/ start_command
    \/ handle_message
    \/ premium_files_callback
    \/ category_callback
    \/ product_callback
    \/ back_to_main_callback
    \/ Call_add_product
    \/ Call_delete_product

SpecCatalog == InitBot /\ [][NextCatalog]_vars

\* The checkout: purchases and screenshot uploads while products are deleted.
NextOrders ==
    \/ buy_now_callback
    \/ handle_photo
    \/ Call_delete_product

SpecOrders == InitBot /\ [][NextOrders]_vars

\* The users table after the actors 1..n have sent /start.
RECURSIVE Registered(_)
Registered(n) ==
    IF n = 0 THEN {}
    ELSE update_user_activity(
             add_user(Registered(n - 1), n, username_or_default(n), FirstName(n),
                      "", 0), n, 0)

\* The admin side. Every actor has sent /start; admin rows are granted and
\* revoked through the store, and every privileged handler is open to every
\* actor. The loop of a running broadcast works on its own snapshot of the user
\* list and on local counters, so the other updates are taken between
\* broadcasts and not between two deliveries of one.
InitAdmin ==
    /\ users = Registered(MaxUser)
    /\ admins = {}
    /\ products = init_default_products({}, 0, 0)
    /\ seq_products = init_default_seq({}, 0)
    /\ orders = {}
    /\ seq_orders = 0
    /\ settings = init_default_bio({})
    /\ now = 0
    /\ conv_bio = [u \in UserIds |-> END]
    /\ conv_bc = [u \in UserIds |-> END]
    /\ bc = NoBroadcast
    /\ ret = NoRet
    /\ out = NoOut
    /\ hist = HistInit
    /\ bio_tasks = NoTasks
    /\ buy_tasks = <<>>

BetweenBroadcasts(A) == bc.pc = "idle" /\ A

NextAdmin ==
    \/ BetweenBroadcasts(Call_add_admin)
    \/ BetweenBroadcasts(Call_remove_admin)
    \/ BetweenBroadcasts(admin_panel_callback)
    \/ BetweenBroadcasts(manage_products_callback)
    \/ BetweenBroadcasts(view_products_callback)
    \/ BetweenBroadcasts(user_management_callback)
    \/ BetweenBroadcasts(view_users_callback)
    \/ BetweenBroadcasts(handle_unknown_callback)
    \/ BetweenBroadcasts(change_bio_callback)
    \/ BetweenBroadcasts(broadcast_callback)
    \/ BetweenBroadcasts(handle_bio_message)
    \/ BetweenBroadcasts(cancel_conversation)
    \/ BetweenBroadcasts(addadmin_command)
    \/ BetweenBroadcasts(removeadmin_command)
    \/ BetweenBroadcasts(users_command)
    \/ BetweenBroadcasts(broadcast_command)
    \/ handle_broadcast_message
    \/ handle_broadcast_message_loop
    \/ handle_broadcast_message_return

SpecAdmin == InitAdmin /\ [][NextAdmin]_vars

\* A broadcast to N registered users: the owner has entered the broadcast
\* wizard and sends the text.
InitBroadcast ==
    /\ \E n \in 0..MaxRecipients : users = Registered(n)
    /\ admins = {}
    /\ products = init_default_products({}, 0, 0)
    /\ seq_products = init_default_seq({}, 0)
    /\ orders = {}
    /\ seq_orders = 0
    /\ settings = init_default_bio({})
    /\ now = 0
    /\ conv_bio = [u \in UserIds |-> END]
    /\ conv_bc = [u \in UserIds |-> IF u \in OWNER_IDS THEN WAITING_BROADCAST ELSE END]
    /\ bc = NoBroadcast
    /\ ret = NoRet
    /\ out = NoOut
    /\ hist = HistInit
    /\ bio_tasks = NoTasks
    /\ buy_tasks = <<>>

NextBroadcast ==
    \/ handle_broadcast_message
    \/ handle_broadcast_message_loop
    \/ handle_broadcast_message_return

SpecBroadcast == InitBroadcast /\ [][NextBroadcast]_vars

\* The event loop resumes the coroutine after each awaited call, which returns
\* or raises: the loop and the return that follows it are not postponed for ever.
SpecBroadcastFair ==
    /\ InitBroadcast
    /\ [][NextBroadcast]_vars
    /\ WF_vars(handle_broadcast_message_loop)
    /\ WF_vars(handle_broadcast_message_return)

\* The bot started on a database file in which some users are flagged as
\* blocked: no statement of the program sets the flag, init_database keeps the
\* tables it finds, and add_user (INSERT OR REPLACE) writes the default 0.
Stored(n, blocked) ==
    {[r EXCEPT !.is_blocked = IF r.user_id \in blocked THEN 1 ELSE 0] :
        r \in Registered(n)}

InitBlocked ==
    /\ \E blocked \in SUBSET UserIds : users = Stored(MaxUser, blocked)
    /\ admins = {}
    /\ products = init_default_products({}, 0, 0)
    /\ seq_products = init_default_seq({}, 0)
    /\ orders = {}
    /\ seq_orders = 0
    /\ settings = init_default_bio({})
    /\ now = 0
    /\ conv_bio = [u \in UserIds |-> END]
    /\ conv_bc = [u \in UserIds |-> END]
    /\ bc = NoBroadcast
    /\ ret = NoRet
    /\ out = NoOut
    /\ hist = HistInit
    /\ bio_tasks = NoTasks
    /\ buy_tasks = <<>>

NextBlocked ==
    \/ start_command
    \/ handle_message
    \/ broadcast_callback
    \/ handle_broadcast_message
    \/ handle_broadcast_message_loop
    \/ handle_broadcast_message_return
    \/ broadcast_command
    \/ users_command
    \/ Call_get_all_users
    \/ Call_get_user_count

SpecBlocked == InitBlocked /\ [][NextBlocked]_vars

\* The bio wizard under the dispatcher of start_bot: the updates of a chat are
\* tasks that run side by side.
NextConcurrent ==
    \/ Call_add_admin
    \/ Call_remove_admin
    \/ change_bio_callback
    \/ handle_bio_message_await
    \/ handle_bio_message_resume
    \/ cancel_conversation

SpecConcurrent == InitAdmin /\ [][NextConcurrent]_vars

\* The two wizards of every actor, with admin rows granted and revoked.
NextWizards ==
    \/ BetweenBroadcasts(Call_add_admin)
    \/ BetweenBroadcasts(Call_remove_admin)
    \/ BetweenBroadcasts(change_bio_callback)
    \/ BetweenBroadcasts(broadcast_callback)
    \/ BetweenBroadcasts(handle_bio_message)
    \/ BetweenBroadcasts(cancel_conversation)
    \/ handle_broadcast_message
    \/ handle_broadcast_message_loop
    \/ handle_broadcast_message_return

SpecWizards == InitAdmin /\ [][NextWizards]_vars

\* Product and Buy buttons pressed while products are added and deleted.
NextLookup ==
    \/ product_callback
    \/ buy_now_callback
    \/ Call_add_product
    \/ Call_delete_product

SpecLookup == InitBot /\ [][NextLookup]_vars

\* datetime.now() gives a later time at a later call.
datetime_now ==
    /\ now < MaxTime
    /\ now' = now + 1
    /\ UNCHANGED <<store, conv_bio, conv_bc, bc, bio_tasks, buy_tasks, ret, out, hist>>

\* The users table over time: users stored earlier (some flagged as blocked)
\* send /start and texts again at later times.
NextUsers ==
    \/ start_command
    \/ handle_message
    \/ datetime_now

SpecUsers == InitBlocked /\ [][NextUsers]_vars

\* The category buttons: products are added under free-text categories and
\* deleted, the category list is shown and its buttons are pressed.
NextCategories ==
    \/ Call_add_product_text
    \/ Call_delete_product
    \/ premium_files_callback
    \/ category_button_pressed

SpecCategories == InitBot /\ [][NextCategories]_vars

\* Text messages of actors whose wizards wait or are idle: the two wizards and
\* the generic text handler, all registered for texts that are no commands.
NextDispatch ==
    \/ BetweenBroadcasts(Call_add_admin)
    \/ BetweenBroadcasts(Call_remove_admin)
    \/ BetweenBroadcasts(change_bio_callback)
    \/ BetweenBroadcasts(broadcast_callback)
    \/ BetweenBroadcasts(handle_bio_message)
    \/ BetweenBroadcasts(handle_message)
    \/ BetweenBroadcasts(cancel_conversation)
    \/ handle_broadcast_message
    \/ handle_broadcast_message_loop
    \/ handle_broadcast_message_return

SpecDispatch == InitAdmin /\ [][NextDispatch]_vars

\* The checkout with its await: Buy presses are suspended at query.answer()
\* while products are deleted through the store.
NextCheckout ==
    \/ buy_now_callback_await
    \/ buy_now_callback_resume
    \/ Call_delete_product

SpecCheckout == InitBot /\ [][NextCheckout]_vars

\* The process is started again on its database file: DatabaseManager keeps the
\* tables it finds (CREATE TABLE IF NOT EXISTS), BotHandlers seeds, and what was
\* in memory (the conversation states, the running coroutines) is gone.
DigitalProductBot_init ==
    /\ seq_products <= MaxId
    /\ settings' = init_default_bio(settings)
    /\ products' = init_default_products(products, seq_products, now)
    /\ seq_products' = init_default_seq(products, seq_products)
    /\ conv_bio' = [u \in UserIds |-> END]
    /\ conv_bc' = [u \in UserIds |-> END]
    /\ bc' = NoBroadcast
    /\ bio_tasks' = NoTasks
    /\ buy_tasks' = <<>>
    /\ ret' = [op |-> "__init__", arg |-> <<>>, val |-> NoneVal]
    /\ out' = NoOut
    /\ UNCHANGED <<users, admins, orders, seq_orders, now, hist>>

\* Restarts of the bot while the bio is changed through the wizard and
\* products are added and deleted through the store.
NextRestart ==
    \/ DigitalProductBot_init
    \/ change_bio_callback
    \/ handle_bio_message
    \/ Call_add_product
    \/ Call_delete_product

SpecRestart == InitBot /\ [][NextRestart]_vars

\* ---------------------------------------------------------------- claims
\* C1: is_owner_or_admin(id) is true exactly when id is an owner or has a row
\* in the admins table at the call; after remove_admin(id) of a non-owner it is
\* false on every call until add_admin(id) runs again (so, from an empty table,
\* it is true exactly for owners and for ids whose last admin operation is
\* add_admin).
C1_AccessPredicate ==
    ret.op = "is_owner_or_admin" =>
        LET u == ret.arg[1] IN
        /\ ret.val = (u \in OWNER_IDS \/ \E r \in admins : r.user_id = u)
        /\ ret.val = (u \in OWNER_IDS \/ hist.admin[u] = "added")

\* A non-owner is refused while another id has an admin row.
C1_Witness ==
    /\ ret.op = "is_owner_or_admin"
    /\ ret.arg[1] \notin OWNER_IDS
    /\ ret.val = FALSE
    /\ admins # {}

\* C5: get_setting(key) after set_setting(key, V) returns the V of the most
\* recent set_setting of that key, whatever the default; for a key never set it
\* returns the default given; the table holds at most one row per key.
C5_SettingRoundTrip ==
    /\ ret.op = "get_setting" =>
            ret.val = IF hist.setting[ret.arg[1]] = Unset
                      THEN ret.arg[2]
                      ELSE hist.setting[ret.arg[1]]
    /\ \A r, q \in settings : r.key = q.key => r = q

C5_Witness ==
    /\ ret.op = "get_setting"
    /\ ret.arg = <<"bio_message", NoneVal>>
    /\ ret.val = "v2"
    /\ hist.setting["qr_note"] = Unset

\* C4: delete_product(id) for an id that no row of products has leaves every
\* table as it was and returns normally; and deleting the same id twice leaves
\* the table that deleting it once leaves.
C4_DeleteAbsentIsNoOp ==
    [][/\ (ret'.op = "delete_product" /\ ~\E r \in products : r.id = ret'.arg[1])
            => (store' = store /\ ret'.val = NoneVal /\ out' = NoOut)
       /\ \A id \in 1..MaxId :
            delete_product(delete_product(products', id), id)
                = delete_product(products', id)]_vars

C4_Witness ==
    /\ ret.op = "delete_product"
    /\ ret.arg[1] > seq_products
    /\ Cardinality(products) = 2
    /\ users # {}

C7_CategoryListing ==
    /\ (out.handler = "premium_files_callback" /\ Len(out.replies) = 2) =>
            LET shown == out.replies[2].markup
                cats == {r.category : r \in products}
            IN  IF cats = {}
                THEN /\ out.replies[2].text = <<"No products available">>
                     /\ shown = <<BackToMain>>
                ELSE /\ Len(shown) = Cardinality(cats) + 1
                     /\ {shown[i] : i \in 1..Len(shown) - 1} =
                            {Button(<<"folder">> \o c, <<"category_">> \o c) : c \in cats}
                     /\ shown[Len(shown)] = BackToMain
    /\ (/\ out.handler = "category_callback"
        /\ out.replies[1].ok
        /\ ~\E r \in products : r.category = Tail(out.data)) =>
            /\ Len(out.replies) = 2
            /\ out.replies[2].text = <<"No products found in">> \o Tail(out.data)
            /\ out.replies[2].markup = <<BackToCategories>>
            /\ out.raised = Raises(out.replies[2])

C7_Witness ==
    /\ out.handler = "premium_files_callback"
    /\ Len(out.replies) = 2
    /\ out.replies[2].ok
    /\ Len(out.replies[2].markup) = 3
    /\ Cardinality(products) = 3

PrivilegedActions ==
    {"admin_panel_callback", "change_bio_callback", "broadcast_callback",
     "users_command", "broadcast_command"}
PrivilegedOperations ==
    PrivilegedActions \cup
    {"manage_products_callback", "view_products_callback",
     "user_management_callback", "view_users_callback",
     "handle_bio_message", "handle_broadcast_message"}
CheckReached(o) ==
    Len(o.replies) >= 1 /\ (o.replies[1].call = "answer" => o.replies[1].ok)
Denied(o) ==
    \E i \in 1..Len(o.replies) : o.replies[i].text \in {AccessDenied, PanelDenied}
Named(o) == replace_with_nothing(o.data[2], "@")[1]

\* C2: when the owner's /addadmin @X has been confirmed, a privileged action
\* (admin panel, wizard entry, /users, /broadcast) that X takes next is not
\* refused; when the owner's /removeadmin @X has been confirmed, a privileged
\* action that X takes next is refused with the access-denied text.
C2_AdminCommandsTakeEffect ==
    [][(/\ out.user \in OWNER_IDS
        /\ Len(out.data) = 2
        /\ out.raised = "none"
        /\ out'.handler \in PrivilegedActions
        /\ CheckReached(out')
        /\ out.handler \in {"addadmin_command", "removeadmin_command"}
        /\ Username(out'.user) = Named(out))
         => (Denied(out') <=> out.handler = "removeadmin_command")]_vars

\* C3: the summary that ends handle_broadcast_message over a list of N users of
\* which K rejected the delivery reports N, N - K sent and K failed, whatever
\* became of the progress edits.
C3_BroadcastSummary ==
    [][(bc.pc = "loop" /\ bc'.pc = "idle") =>
         LET N == Len(bc.users)
             K == bc.rejected
         IN  /\ Len(out'.replies) = 1
             /\ out'.replies[1].text =
                    <<"Broadcast Completed!", str(N), str(N - K), str(K)>>]_vars

\* C8: when an actor that is no owner and has no row in admins starts a
\* privileged operation (the panel, a view, a wizard entry, /users, /broadcast
\* or the text a waiting wizard consumes) and the handler reaches its check
\* (a callback query is acknowledged first), the one thing the handler sends is
\* the access-denied text to the actor, no table changes, no delivery is
\* attempted or begun, and no wizard becomes waiting; and whenever a wizard
\* becomes waiting for an actor, that actor is an owner or has an admin row.
C8_UnauthorizedIsRefused ==
    [][/\ (/\ out'.handler \in PrivilegedOperations
           /\ bc.pc = "idle"
           /\ CheckReached(out')
           /\ out'.user \notin OWNER_IDS
           /\ ~\E r \in admins : r.user_id = out'.user)
            => LET sent == SelectSeq(out'.replies, LAMBDA r : r.call # "answer")
               IN  /\ Len(sent) = 1
                   /\ sent[1].call \in {"edit_message_text", "reply_text"}
                   /\ sent[1].text \in {AccessDenied, PanelDenied}
                   /\ store' = store
                   /\ bc' = bc
                   /\ \A v \in UserIds :
                        /\ conv_bio'[v] = WAITING_BIO => conv_bio[v] = WAITING_BIO
                        /\ conv_bc'[v] = WAITING_BROADCAST
                              => conv_bc[v] = WAITING_BROADCAST
       /\ \A v \in UserIds :
            /\ (conv_bio[v] # WAITING_BIO /\ conv_bio'[v] = WAITING_BIO)
                  => (v \in OWNER_IDS \/ \E r \in admins : r.user_id = v)
            /\ (conv_bc[v] # WAITING_BROADCAST /\ conv_bc'[v] = WAITING_BROADCAST)
                  => (v \in OWNER_IDS \/ \E r \in admins : r.user_id = v)]_vars

\* An actor whose admin row was removed while the broadcast wizard waited for
\* them sends the text and is refused, with registered users to deliver to.
C8_Witness ==
    /\ out.handler = "handle_broadcast_message"
    /\ out.user \notin OWNER_IDS
    /\ admins = {}
    /\ users # {}
    /\ out.replies = <<Reply("reply_text", AccessDenied, <<>>, TRUE)>>
    /\ conv_bc[out.user] = END
    /\ bc.pc = "idle"

\* C9: when a waiting wizard's handler has consumed the actor's text (for the
\* broadcast: when its handler has ended), or the actor has cancelled by
\* /cancel or by the Cancel button, that actor's wizard is idle, whether or not
\* the replies and deliveries went through.
C9_WizardIdleAfterwards ==
    [][/\ out'.handler = "handle_bio_message" => conv_bio'[out'.user] = END
       /\ (out'.handler = "handle_broadcast_message" /\ bc'.pc = "idle")
            => conv_bc'[out'.user] = END
       /\ (out'.handler = "cancel_conversation" /\ out'.data[2] = "cancel_bio")
            => conv_bio'[out'.user] = END
       /\ (out'.handler = "cancel_conversation" /\ out'.data[2] = "cancel_broadcast")
            => conv_bc'[out'.user] = END]_vars

C12_BlockedUsersExcluded ==
    [][/\ \A i \in 1..Len(out'.replies) :
            out'.replies[i].call = "send_message" =>
                /\ \E r \in users : r.user_id = out'.replies[i].chat_id
                /\ \A r \in users :
                      r.user_id = out'.replies[i].chat_id => r.is_blocked = 0
       /\ ret'.op = "get_all_users" =>
            {ret'.val[i].user_id : i \in 1..Len(ret'.val)} =
                {r.user_id : r \in {q \in users' : q.is_blocked = 0}}
       /\ ret'.op = "get_user_count" =>
            ret'.val = Cardinality({r \in users' : r.is_blocked = 0})
       /\ get_user_count(users) = Len(get_all_users(users))
       /\ get_user_count(users') = Len(get_all_users(users'))]_vars

\* A delivery of the wizard's broadcast while another user is blocked.
C12_Witness ==
    /\ out.handler = "handle_broadcast_message"
    /\ bc.pc = "loop"
    /\ \E i \in 1..Len(out.replies) : out.replies[i].call = "send_message"
    /\ \E r \in users : r.is_blocked = 1

\* C13: once a handler has handled an update of a user (a command, a text, a
\* button press or a photo), the users table has a row with that user's id;
\* and no step removes the row of any user id.
C13_UserRecordedOnInteraction ==
    [][/\ out'.handler # "none" => \E r \in users' : r.user_id = out'.user
       /\ {r.user_id : r \in users} \subseteq {r.user_id : r \in users'}]_vars

\* C14: add_product inserts exactly one row and changes no other; the new id
\* is larger than every id assigned so far (no row ever has an id above the
\* sequence, and the sequence never goes back), so it is the id of no product
\* present or deleted; and an id never comes to name another row, so a button
\* made for a deleted product finds no product.
C14_ProductIdsAreFresh ==
    [][/\ \A r \in products : r.id <= seq_products
       /\ \A r \in products' : r.id <= seq_products'
       /\ seq_products' >= seq_products
       /\ \A r \in products, q \in products' : r.id = q.id => r = q
       /\ \A q \in products' \ products : q.id > seq_products
       /\ ret'.op = "add_product" =>
            /\ products \subseteq products'
            /\ Cardinality(products') = Cardinality(products) + 1]_vars

\* A product added after the product with the largest id was deleted.
C14_Witness ==
    /\ ret.op = "add_product"
    /\ \E r \in products : r.id = seq_products
    /\ ~\E r \in products : r.id = seq_products - 1

C17_ProgressEveryTenAttempts ==
    [][/\ (bc.pc = "loop" /\ bc'.pc = "loop") =>
            ((Len(bc'.attempted) % 10 = 0) <=>
                \E i \in 1..Len(out'.replies) :
                    /\ out'.replies[i].call = "edit_text"
                    /\ out'.replies[i].text[1] = "Broadcasting Message...")
       /\ (bc.pc = "loop" /\ bc'.pc = "idle") =>
            /\ out'.replies[1].call = "edit_text"
            /\ out'.replies[1].text[1] = "Broadcast Completed!"]_vars

\* C18: the updates of one conversation are handled one at a time: a text of
\* an actor is given to handle_bio_message only when no handler of an earlier
\* text of that actor is still waiting, so that one entry into the bio wizard
\* has at most one text applied.
C18_OneUpdateAtATime ==
    \A u \in UserIds : Len(bio_tasks[u]) <= 1

\* C19: the wizards of different actors are independent: a step taken for one
\* actor leaves the wizard states of every other actor as they are; a wizard
\* handler consumes an actor's text only when that actor's own wizard waits;
\* an actor whose wizard is idle is given the entry handler whoever else is
\* waiting; and while another actor waits, an admitted actor's text is applied
\* (the bio is set to it) and with the reply sent their wizard is idle.
C19_WizardsAreIndependent ==
    [][/\ \A a \in UserIds :
            out'.user # a =>
                conv_bio'[a] = conv_bio[a] /\ conv_bc'[a] = conv_bc[a]
       /\ out'.handler = "handle_bio_message" =>
            conv_bio[out'.user] = WAITING_BIO
       /\ (out'.handler = "handle_broadcast_message" /\ bc.pc = "idle") =>
            conv_bc[out'.user] = WAITING_BROADCAST
       /\ \A b \in UserIds :
            /\ conv_bio[b] = END =>
                  RouteCallback(b, <<"admin_change_bio">>) = "change_bio_callback"
            /\ (conv_bio[b] = END /\ conv_bc[b] = END) =>
                  RouteCallback(b, <<"admin_broadcast">>) = "broadcast_callback"
       /\ \A a, b \in UserIds :
            (/\ a # b
             /\ conv_bio[a] = WAITING_BIO
             /\ out'.handler = "handle_bio_message"
             /\ out'.user = b
             /\ is_owner_or_admin(admins, b))
              => /\ get_setting(settings', "bio_message", NoneVal) = out'.data[1]
                 /\ out'.replies[1].ok => conv_bio'[b] = END
                 /\ conv_bio'[a] = WAITING_BIO]_vars

\* The owner's bio wizard waits while an admin's text has been applied and the
\* admin's wizard is idle again.
C19_Witness ==
    \E a \in OWNER_IDS, b \in UserIds \ OWNER_IDS :
        /\ conv_bio[a] = WAITING_BIO
        /\ out.handler = "handle_bio_message"
        /\ out.user = b
        /\ out.replies = <<Reply("reply_text",
                                 <<"Bio Updated Successfully!", "hello">>, <<>>, TRUE)>>
        /\ conv_bio[b] = END

\* C20: a product or Buy press (acknowledged by query.answer) whose payload
\* names no product of the catalog changes no table and no sequence; for an id
\* that no product has, the handler's one further call is the edit to the
\* not-found text and no exception of its own leaves it; for a payload that is
\* no number the handler makes no further call, the ValueError leaves it and
\* the error handler reports it once.
C20_UnknownProductChangesNothing ==
    [][(/\ out'.handler \in {"product_callback", "buy_now_callback"}
        /\ out'.replies[1].ok
        /\ ~\E p \in products : <<str(p.id)>> = Tail(out'.data))
         => /\ store' = store
            /\ IF int(Tail(out'.data)) = ValueError
               THEN /\ Len(out'.replies) = 1
                    /\ out'.raised = "ValueError"
                    /\ out'.notice = "attempted"
               ELSE /\ Len(out'.replies) = 2
                    /\ out'.replies[2].call = "edit_message_text"
                    /\ out'.replies[2].text = <<"Product not found!">>
                    /\ out'.raised = Raises(out'.replies[2])]_vars

\* A Buy press for a seeded product that has been deleted, answered with the
\* not-found text, while another product is still for sale and no order exists.
C20_Witness ==
    /\ out.handler = "buy_now_callback"
    /\ out.data = <<"buy_", "2">>
    /\ Len(out.replies) = 2
    /\ out.replies[2] = Reply("edit_message_text", <<"Product not found!">>, <<>>, TRUE)
    /\ products # {}
    /\ orders = {}

\* C21: add_user for a user id that has a row already (called by /start and by
\* a text message) sets the row's handle and names and keeps its blocked flag
\* and its join time as they were.
C21_AddUserKeepsFlagAndJoinTime ==
    [][\A r \in users :
         (out'.handler \in {"start_command", "handle_message"}
            /\ out'.user = r.user_id)
          => \E q \in users' :
                /\ q.user_id = r.user_id
                /\ q.username = username_or_default(r.user_id)
                /\ q.first_name = FirstName(r.user_id)
                /\ q.is_blocked = r.is_blocked
                /\ q.joined_date = r.joined_date]_vars

\* C22: a press (acknowledged by query.answer) of the button rendered for a
\* category c of the catalog makes category_callback show exactly the products
\* whose category is c: the text names c and there is one product button for
\* each such product and no other, then the back button.
C22_CategoryButtonRoundTrip ==
    [][\A c \in {r.category : r \in products} :
         (/\ out'.handler = "category_callback"
          /\ out'.replies[1].ok
          /\ out'.data = <<"category_">> \o c)
          => LET shown == out'.replies[2].markup
                 of_c == {r \in products : r.category = c}
             IN  /\ out'.replies[2].text = <<"Products of">> \o c
                 /\ Len(shown) = Cardinality(of_c) + 1
                 /\ {shown[i] : i \in 1..Len(shown) - 1} =
                        {Button(<<"target", r.name, r.price>>,
                                <<"product_", str(r.id)>>) : r \in of_c}
                 /\ shown[Len(shown)] = BackToCategories]_vars

\* C23: a text message goes to one handler. The generic handler gets it only
\* when no wizard of the sender waits; a wizard's handler gets it only when that
\* wizard of the sender waits, and then the generic handler's reply is not sent;
\* the bio handler starts no broadcast and the broadcast handler stores no bio;
\* and when both wizards of the sender wait, the text goes to the bio wizard
\* (registered first) alone: no broadcast is begun and the broadcast wizard
\* still waits.
C23_OneHandlerPerText ==
    [][LET u == out'.user
           text_handled == /\ bc.pc = "idle"
                           /\ out'.handler \in {"handle_message", "handle_bio_message",
                                                 "handle_broadcast_message"}
       IN  text_handled =>
             /\ out'.handler = "handle_message" =>
                   /\ conv_bio[u] # WAITING_BIO
                   /\ conv_bc[u] # WAITING_BROADCAST
                   /\ settings' = settings
                   /\ bc' = bc
                   /\ conv_bio' = conv_bio /\ conv_bc' = conv_bc
             /\ out'.handler = "handle_bio_message" =>
                   /\ conv_bio[u] = WAITING_BIO
                   /\ Len(out'.replies) = 1
                   /\ out'.replies[1].text[1] # "Hello! Use /start"
                   /\ bc' = bc
                   /\ conv_bc' = conv_bc
             /\ out'.handler = "handle_broadcast_message" =>
                   /\ conv_bc[u] = WAITING_BROADCAST
                   /\ conv_bio[u] # WAITING_BIO
                   /\ Len(out'.replies) = 1
                   /\ out'.replies[1].text[1] # "Hello! Use /start"
                   /\ settings' = settings
                   /\ conv_bio' = conv_bio
             /\ (conv_bio[u] = WAITING_BIO /\ conv_bc[u] = WAITING_BROADCAST) =>
                   /\ out'.handler = "handle_bio_message"
                   /\ conv_bc'[u] = WAITING_BROADCAST
                   /\ bc' = bc]_vars

\* Both wizards of the owner waited; the text was stored as the bio, the bio
\* wizard is idle and the broadcast wizard still waits.
C23_Witness ==
    \E u \in OWNER_IDS :
        /\ out.handler = "handle_bio_message"
        /\ out.user = u
        /\ out.replies = <<Reply("reply_text",
                                 <<"Bio Updated Successfully!", "hello">>, <<>>, TRUE)>>
        /\ get_setting(settings, "bio_message", NoneVal) = "hello"
        /\ conv_bio[u] = END
        /\ conv_bc[u] = WAITING_BROADCAST
        /\ bc.pc = "idle"

\* C24: when cancel_conversation has handled an actor's /cancel or press of the
\* Cancel button and no exception left it, neither the bio wizard nor the
\* broadcast wizard of that actor waits, whatever states the two were in.
C24_CancelEndsEveryWizard ==
    [][(out'.handler = "cancel_conversation" /\ out'.raised = "none") =>
          /\ conv_bio'[out'.user] # WAITING_BIO
          /\ conv_bc'[out'.user] # WAITING_BROADCAST]_vars

\* C25: every order row that buy_now_callback inserts has the name and the
\* price of the product that the pressed button names, and that product is in
\* the catalog in the step that inserts the row; also when delete_product of
\* the same product runs while the handler waits for query.answer(): then the
\* handler inserts no row.
C25_OrderNamesCatalogProduct ==
    [][out'.handler = "buy_now_callback" =>
         /\ \A q \in orders' \ orders :
               \E p \in products :
                   /\ p \in products'
                   /\ out'.data = <<"buy_", str(p.id)>>
                   /\ q.product_name = p.name
                   /\ q.amount = p.price
         /\ (hist'.raced /\ Len(out'.replies) >= 1) => orders' = orders]_vars

\* A Buy press whose product was deleted while the handler waited for
\* query.answer() has ended with the not-found text and without a row, after
\* an earlier press of the same button had its row inserted.
C25_Witness ==
    /\ out.handler = "buy_now_callback"
    /\ hist.raced
    /\ Len(out.replies) = 2
    /\ out.replies[2].text = <<"Product not found!">>
    /\ Cardinality(orders) = 1
    /\ out.data = <<"buy_", "2">>
    /\ \E q \in orders : q.product_name = "Cricket 24 Pro"

\* C26: the first start on a new database stores the default bio and the two
\* default products; every later start leaves the settings as they are when a
\* bio is stored (so the bio last set through the wizard stays) and stores the
\* default bio when none is; it leaves a catalog that is not empty as it is and
\* gives an empty one the two default products under new ids; it changes no
\* other table; and a start right after a start changes nothing.
C26_SeedingIsIdempotent ==
    /\ get_setting(settings, "bio_message", NoneVal) = DefaultBio
    /\ {r.name : r \in products} = {"Diuwin Premium", "Cricket 24 Pro"}
    /\ [][ret'.op = "__init__" =>
            /\ settings' =
                  IF \E r \in settings : r.key = "bio_message" THEN settings
                  ELSE settings \cup {[key |-> "bio_message", value |-> DefaultBio]}
            /\ hist.setting["bio_message"] # Unset =>
                  get_setting(settings', "bio_message", NoneVal) =
                      hist.setting["bio_message"]
            /\ products # {} => (products' = products /\ seq_products' = seq_products)
            /\ products = {} =>
                  /\ Cardinality(products') = 2
                  /\ {r.name : r \in products'} = {"Diuwin Premium", "Cricket 24 Pro"}
                  /\ \A r \in products' : r.id > seq_products
            /\ <<users', admins', orders', seq_orders'>> =
                  <<users, admins, orders, seq_orders>>
            /\ init_default_bio(settings') = settings'
            /\ init_default_products(products', seq_products', now) = products'
            /\ init_default_seq(products', seq_products') = seq_products']_vars

\* A restart after the owner set the bio through the wizard and the catalog
\* was emptied: the bio is the owner's and the default products are back.
C26_Witness ==
    /\ ret.op = "__init__"
    /\ hist.setting["bio_message"] = "hello"
    /\ get_setting(settings, "bio_message", NoneVal) = "hello"
    /\ Cardinality(products) = 2
    /\ \A r \in products : r.id > 2

====
